---- MODULE Spec2Model ----
(***************************************************************************)
(* Party Song Guess: the room / round engine of the socket.io server      *)
(* (index.js) and the answer matcher (utils/checkAnswer.js).              *)
(*                                                                         *)
(* A JavaScript string is a sequence of characters; a character is a      *)
(* one-letter TLA+ string, or a named token for a character outside ASCII *)
(* ("e_acute" is U+00E9, "comb_acute" is the combining mark U+0301).       *)
(***************************************************************************)
EXTENDS Integers, Sequences, FiniteSets, TLC

(***************************************************************************)
(* Part 1.  utils/checkAnswer.js                                           *)
(***************************************************************************)

UpperLetters ==
    << "A", "B", "C", "D", "E", "F", "G", "H", "I", "J", "K", "L", "M",
       "N", "O", "P", "Q", "R", "S", "T", "U", "V", "W", "X", "Y", "Z" >>

LowerLetters ==
    << "a", "b", "c", "d", "e", "f", "g", "h", "i", "j", "k", "l", "m",
       "n", "o", "p", "q", "r", "s", "t", "u", "v", "w", "x", "y", "z" >>

Digits == {"0", "1", "2", "3", "4", "5", "6", "7", "8", "9"}

Range(s) == {s[i] : i \in 1..Len(s)}

\* \w of a JavaScript regular expression: [A-Za-z0-9_]
IsWordChar(c) == c \in Range(UpperLetters) \cup Range(LowerLetters) \cup Digits \cup {"_"}

\* \s of a JavaScript regular expression (the white space this model writes)
IsSpaceChar(c) == c \in {" ", "\t", "\n", "\r"}

\* the characters "." of a regular expression does not match
IsLineTerminator(c) == c \in {"\n", "\r"}

\* [\u0300-\u036f]: the combining marks NFD splits off
IsCombiningMark(c) == c \in {"comb_acute", "comb_grave", "comb_tilde"}

\* String.prototype.toLowerCase, one character
LowerChar(c) ==
    IF c \in Range(UpperLetters)
    THEN LowerLetters[CHOOSE i \in 1..26 : UpperLetters[i] = c]
    ELSE CASE c = "E_acute" -> "e_acute"
           [] c = "E_grave" -> "e_grave"
           [] c = "N_tilde" -> "n_tilde"
           [] OTHER -> c

toLowerCase(str) == [i \in 1..Len(str) |-> LowerChar(str[i])]

\* String.prototype.normalize("NFD"), one character: base letter, then mark
DecomposeChar(c) ==
    CASE c = "e_acute" -> << "e", "comb_acute" >>
      [] c = "e_grave" -> << "e", "comb_grave" >>
      [] c = "n_tilde" -> << "n", "comb_tilde" >>
      [] c = "E_acute" -> << "E", "comb_acute" >>
      [] c = "E_grave" -> << "E", "comb_grave" >>
      [] c = "N_tilde" -> << "N", "comb_tilde" >>
      [] OTHER -> << c >>

RECURSIVE normalizeNFD(_)
normalizeNFD(str) ==
    IF str = << >> THEN << >>
    ELSE DecomposeChar(Head(str)) \o normalizeNFD(Tail(str))

\* .replace(/[\u0300-\u036f]/g, "")
IsNotMark(c) == ~IsCombiningMark(c)

removeAccents(str) == SelectSeq(str, IsNotMark)

\* the first ")" of t that no line terminator precedes, 0 when there is none
RECURSIVE CloseParen(_, _)
CloseParen(t, k) ==
    IF k > Len(t) THEN 0
    ELSE IF t[k] = ")" THEN k
    ELSE IF IsLineTerminator(t[k]) THEN 0
    ELSE CloseParen(t, k + 1)

\* the annotations stay
keepParens(str) == str

\* .replace(/\(.*?\)/g, '')
RECURSIVE removeParens(_)
removeParens(str) ==
    IF str = << >> THEN << >>
    ELSE IF Head(str) = "(" /\ CloseParen(Tail(str), 1) > 0
         THEN removeParens(SubSeq(Tail(str), CloseParen(Tail(str), 1) + 1,
                                  Len(Tail(str))))
         ELSE << Head(str) >> \o removeParens(Tail(str))

\* /\bfeat\.?\b.*$/ matches at position i
FeatAt(str, i) ==
    /\ i + 3 <= Len(str)
    /\ SubSeq(str, i, i + 3) = << "f", "e", "a", "t" >>
    /\ (i = 1 \/ ~IsWordChar(str[i - 1]))
    /\ (i + 4 > Len(str) \/ ~IsWordChar(str[i + 4]))
    /\ \A k \in i..Len(str) : ~IsLineTerminator(str[k])

\* .replace(/\bfeat\.?\b.*$/g, '')
dropFeat(str) ==
    IF \E i \in 1..Len(str) : FeatAt(str, i)
    THEN LET i == CHOOSE j \in 1..Len(str) :
                      FeatAt(str, j) /\ \A k \in 1..(j - 1) : ~FeatAt(str, k)
         IN SubSeq(str, 1, i - 1)
    ELSE str

\* .replace(/[^\w\s]/g, ' ')
removeSpecial(str) ==
    [i \in 1..Len(str) |->
        IF IsWordChar(str[i]) \/ IsSpaceChar(str[i]) THEN str[i] ELSE " "]

\* .replace(/\s+/g, ' ')
RECURSIVE collapseSpaces(_)
collapseSpaces(str) ==
    IF str = << >> THEN << >>
    ELSE IF IsSpaceChar(Head(str))
         THEN IF Len(str) > 1 /\ IsSpaceChar(str[2])
              THEN collapseSpaces(Tail(str))
              ELSE << " " >> \o collapseSpaces(Tail(str))
         ELSE << Head(str) >> \o collapseSpaces(Tail(str))

\* String.prototype.trim
RECURSIVE trimLeft(_)
trimLeft(str) ==
    IF str # << >> /\ IsSpaceChar(Head(str)) THEN trimLeft(Tail(str)) ELSE str

RECURSIVE trimRight(_)
trimRight(str) ==
    IF str # << >> /\ IsSpaceChar(str[Len(str)])
    THEN trimRight(SubSeq(str, 1, Len(str) - 1))
    ELSE str

trim(str) == trimRight(trimLeft(str))

clean(str) ==
    trim(collapseSpaces(removeSpecial(dropFeat(removeParens(
        removeAccents(normalizeNFD(toLowerCase(str))))))))

\* str.split(' ')
RECURSIVE splitSpace(_, _)
splitSpace(str, cur) ==
    IF str = << >> THEN << cur >>
    ELSE IF Head(str) = " "
         THEN << cur >> \o splitSpace(Tail(str), << >>)
         ELSE splitSpace(Tail(str), Append(cur, Head(str)))

split(str) == splitSpace(str, << >>)

stopwords ==
    { << "t", "h", "e" >>, << "a" >>, << "a", "n" >>, << "l", "e" >>,
      << "l", "a" >>, << "i", "l" >>, << "l", "o" >>, << "i" >>,
      << "g", "l", "i" >>, << "u", "n" >>, << "u", "n", "a" >>,
      << "u", "n", "o" >>, << "e", "l" >>, << "l", "o", "s" >>,
      << "l", "a", "s" >>, << "u", "n", "o", "s" >>, << "u", "n", "a", "s" >>,
      << "a", "n", "d" >>, << "o", "f" >>, << "i", "n" >>, << "o", "n" >>,
      << "a", "t" >>, << "t", "o" >> }

getTokens(str) == {w \in Range(split(str)) : Len(w) > 0 /\ w \notin stopwords}

rawTokens(str) == {w \in Range(split(str)) : Len(w) > 0}

finalTokens(str) == IF getTokens(str) # {} THEN getTokens(str) ELSE rawTokens(str)

\* half of the title's tokens are enough
overlapHalf(g, a) ==
    /\ Cardinality(finalTokens(a)) > 0
    /\ 2 * Cardinality(finalTokens(g) \cap finalTokens(a))
          >= Cardinality(finalTokens(a))

\* the ratio is taken over the tokens of the guess
overlapOfGuess(g, a) ==
    /\ Cardinality(finalTokens(g)) > 0
    /\ 5 * Cardinality(finalTokens(g) \cap finalTokens(a))
          >= 4 * Cardinality(finalTokens(g))

\* overlapRatio >= 0.8, the ratio being |intersection| / |finalATokens|
overlapAccepts(g, a) ==
    /\ Cardinality(finalTokens(a)) > 0
    /\ 5 * Cardinality(finalTokens(g) \cap finalTokens(a))
          >= 4 * Cardinality(finalTokens(a))

Min2(x, y) == IF x <= y THEN x ELSE y

Max2(x, y) == IF x >= y THEN x ELSE y

Abs(x) == IF x >= 0 THEN x ELSE -x

\* one row of the dp table: cur holds dp[i][0..j-1], prev holds dp[i-1][0..len2]
RECURSIVE dpRow(_, _, _, _)
dpRow(prev, cur, c, s2) ==
    LET j == Len(cur) IN
    IF j > Len(s2) THEN cur
    ELSE LET cost == IF c = s2[j] THEN 0 ELSE 1
             v == Min2(Min2(prev[j + 1] + 1, cur[j] + 1), prev[j] + cost)
         IN dpRow(prev, Append(cur, v), c, s2)

RECURSIVE dpRows(_, _, _, _)
dpRows(prev, i, s1, s2) ==
    IF i > Len(s1) THEN prev
    ELSE dpRows(dpRow(prev, << i >>, s1[i], s2), i + 1, s1, s2)

\* dp[len1][len2]
levenshtein(s1, s2) ==
    dpRows([j \in 1..(Len(s2) + 1) |-> j - 1], 1, s1, s2)[Len(s2) + 1]

\* any difference of the lengths gives similarity 0
similarityEqualLength(s1, s2) ==
    /\ Len(s1) # 0 /\ Len(s2) # 0
    /\ Len(s1) = Len(s2)
    /\ 4 * (Max2(Len(s1), Len(s2)) - levenshtein(s1, s2))
          >= 3 * Max2(Len(s1), Len(s2))

\* the threshold is exclusive
similarityAbove(s1, s2) ==
    /\ Len(s1) # 0 /\ Len(s2) # 0
    /\ 4 * (Max2(Len(s1), Len(s2)) - levenshtein(s1, s2))
          > 3 * Max2(Len(s1), Len(s2))

\* similarity(s1, s2) >= 0.75, similarity being 1 - dist / maxLen, 0 for an
\* empty string or a length difference above 0.3 of the longer length
similarityAccepts(s1, s2) ==
    /\ Len(s1) # 0 /\ Len(s2) # 0
    /\ ~(10 * Abs(Len(s1) - Len(s2)) > 3 * Max2(Len(s1), Len(s2)))
    /\ 4 * (Max2(Len(s1), Len(s2)) - levenshtein(s1, s2))
          >= 3 * Max2(Len(s1), Len(s2))

\* the values null and undefined, which are not strings
Null == << "null" >>

Undefined == << "undefined" >>

\* values that are not strings: the numbers 0 and 5, the booleans, {} and []
Zero == << "number_0" >>

Five == << "number_5" >>

True == << "true" >>

False == << "false" >>

EmptyObject == << "object" >>

EmptyArray == << "array" >>

IsString(v) ==
    v \notin {Null, Undefined, Zero, Five, True, False, EmptyObject, EmptyArray}

\* no argument counts as falsy
NeverFalsy(v) == FALSE

\* !guess: the empty string, null, undefined, 0 and false are falsy
Falsy(v) == v \in {<< >>, Null, Undefined, Zero, False}

\* str.toLowerCase is not a function: clean throws a TypeError
cleanThrows(v) == ~IsString(v)

\* the call gets past the first guard and cleans the guess, then the title
checkAnswerThrows(guess, actual) ==
    /\ ~Falsy(guess) /\ ~Falsy(actual)
    /\ (cleanThrows(guess) \/ cleanThrows(actual))

\* the guess is compared as it was typed
checkAnswerRawGuess(guess, actual) ==
    IF Falsy(guess) \/ Falsy(actual) THEN FALSE
    ELSE LET g == guess
             a == clean(actual)
         IN IF Falsy(g) \/ Falsy(a) THEN FALSE
            ELSE IF g = a THEN TRUE
            ELSE IF overlapAccepts(g, a) THEN TRUE
            ELSE similarityAccepts(g, a)

checkAnswer(guess, actual) ==
    IF Falsy(guess) \/ Falsy(actual) THEN FALSE
    ELSE LET g == clean(guess)
             a == clean(actual)
         IN IF Falsy(g) \/ Falsy(a) THEN FALSE
            ELSE IF g = a THEN TRUE
            ELSE IF overlapAccepts(g, a) THEN TRUE
            ELSE similarityAccepts(g, a)

(***************************************************************************)
(* Part 1b.  app/server/utils/checkAnswer.js: the copy of checkAnswer kept  *)
(* under app/server, with a substring rule and a 60% word rule             *)
(***************************************************************************)

\* clean of this copy: no accent is removed
cleanApp(str) ==
    trim(collapseSpaces(removeSpecial(dropFeat(removeParens(toLowerCase(str))))))

\* String.prototype.includes
includes(str, sub) ==
    \E i \in 1..(Len(str) - Len(sub) + 1) : SubSeq(str, i, i + Len(sub) - 1) = sub

\* common.length / aWords.length >= 0.6 over the words of the title
wordOverlapApp(g, a) ==
    LET aWords == Range(split(a))
        gWords == Range(split(g))
    IN /\ Cardinality(aWords) > 0
       /\ 5 * Cardinality(aWords \cap gWords) >= 3 * Cardinality(aWords)

\* similarity(g, a) >= 0.7, with no test of the lengths
similarityApp(s1, s2) ==
    /\ Len(s1) # 0 /\ Len(s2) # 0
    /\ 10 * (Max2(Len(s1), Len(s2)) - levenshtein(s1, s2))
          >= 7 * Max2(Len(s1), Len(s2))

checkAnswerApp(guess, actual) ==
    IF Falsy(guess) \/ Falsy(actual) THEN FALSE
    ELSE LET g == cleanApp(guess)
             a == cleanApp(actual)
         IN IF Falsy(g) \/ Falsy(a) THEN FALSE
            ELSE IF g = a THEN TRUE
            ELSE IF includes(g, a) \/ includes(a, g) THEN TRUE
            ELSE IF wordOverlapApp(g, a) THEN TRUE
            ELSE similarityApp(g, a)

(***************************************************************************)
(* Part 2.  index.js: the room table, the socket handlers and the timers   *)
(***************************************************************************)

\* connections (socket.id); every connection sends one display name
Sockets == {"s1", "s2"}

NameOf(s) == IF s = "s1" THEN "Ann" ELSE "Bob"

\* the room ids a request can carry; Math.random().toString(36).substring(2, 7)
\* draws the new room's id from limit.roomIds
RoomIds == {"R1", "R2"}

\* create_room, join_room and start_game requests served in one run
MaxRequests == 3

\* start_game calls that get past the guard in one run
MaxStarts == 1

\* the same, in the runs where a game is started again
MaxRestarts == 2

\* titles as the providers spell them
Wonderwall == << "W", "o", "n", "d", "e", "r", "w", "a", "l", "l" >>

HeyJude == << "H", "e", "y", " ", "J", "u", "d", "e" >>

Catalog ==
    << [artist |-> "Oasis", title |-> Wonderwall],
       [artist |-> "The Beatles", title |-> HeyJude] >>

Creep == << "C", "r", "e", "e", "p" >>

\* the candidates of the runs with a playlist of three songs
Catalog3 == Catalog \o << [artist |-> "Radiohead", title |-> Creep] >>

\* the candidates of the runs whose provider knows one song
Catalog1 == << Catalog[1] >>

\* the guess field of submit_guess: the title, a typo of it, another title
Guesses ==
    { << "w", "o", "n", "d", "e", "r", "w", "a", "l", "l" >>,
      << "W", "o", "n", "d", "e", "r", "w", "a", "l" >>,
      << "C", "r", "e", "e", "p" >> }

\* the rounds field of start_game: missing, or a number
RoundsInputs == { [t |-> "undefined", n |-> 0], [t |-> "number", n |-> 1] }

\* null, and the undefined an index past the end of songs reads
NullSong == [id |-> << 0, 0 >>, title |-> << >>, artist |-> "", previewUrl |-> ""]

UndefinedSong == [id |-> << 0, 1 >>, title |-> << >>, artist |-> "", previewUrl |-> ""]

IsSongObject(song) == song.id[1] > 0

VARIABLES
    rooms,      \* the room table: room id -> index of its object in heap, 0 = no key
    heap,       \* the room objects ever created, in creation order
    timers,     \* the setTimeout callbacks armed and not yet run, in arming order
    loads,      \* the start_game calls suspended at an await
    nStarts,    \* start_game calls that got past the guard
    emitted,    \* the events the last step emitted, in order
    crashed,    \* an exception left a handler or a timer callback
    hist,       \* per room object: what happened since its last round began
    limit,      \* the requests the clients send in this run, at most
    served,     \* the handler or callback the last step ran, and for whom
    probe       \* a call of checkAnswer outside the server: arguments, result

vars ==
    << rooms, heap, timers, loads, nStarts, emitted, crashed, hist, limit, served,
       probe >>

\* the server's steps make no call of checkAnswer other than submit_guess's
Serve(op, by) == served' = [op |-> op, by |-> by] /\ UNCHANGED probe

NoProbe ==
    [guess |-> << >>, actual |-> << >>, done |-> FALSE, threw |-> FALSE,
     result |-> FALSE]

ToRoom(roomId, ev, data) == [ev |-> ev, scope |-> "room", to |-> roomId, data |-> data]

ToSocket(s, ev, data) == [ev |-> ev, scope |-> "socket", to |-> s, data |-> data]

NoData == [none |-> TRUE]

Timer(kind, delay, roomId, room, song, call) ==
    [kind |-> kind, delay |-> delay, roomId |-> roomId, room |-> room,
     song |-> song, call |-> call]

RemoveAt(seq, i) == SubSeq(seq, 1, i - 1) \o SubSeq(seq, i + 1, Len(seq))

RECURSIVE SumLen(_, _)
SumLen(h, k) == IF k = 0 THEN 0 ELSE Len(h[k].players) + SumLen(h, k - 1)

\* requests served so far: one per player entry, one per start_game call
Requests == SumLen(heap, Len(heap)) + nStarts

NoHist == [begun |-> FALSE, won |-> 0, timedOut |-> 0]

\* no room, no timer, no call in flight
Idle ==
    /\ rooms = [id \in RoomIds |-> 0]
    /\ heap = << >>
    /\ timers = << >>
    /\ loads = {}
    /\ nStarts = 0
    /\ emitted = << >>
    /\ crashed = FALSE
    /\ hist = << >>
    /\ served = [op |-> "listen", by |-> "server"]

Boot == Idle /\ probe = NoProbe

Init ==
    Boot /\ limit = [requests |-> MaxRequests, starts |-> MaxStarts,
                     roomIds |-> {"R1"}, catalog |-> Catalog, userIds |-> {FALSE}, late |-> FALSE,
                     rounds |-> RoundsInputs]

InitRestart ==
    Boot /\ limit = [requests |-> MaxRequests, starts |-> MaxRestarts,
                     roomIds |-> {"R1"}, catalog |-> Catalog, userIds |-> {FALSE}, late |-> FALSE,
                     rounds |-> RoundsInputs]

\* the object create_room stores; roundActive and songs are not set yet
NewRoom(roomId, s) ==
    [id |-> roomId,
     players |-> << [id |-> s, name |-> NameOf(s), score |-> 0] >>,
     state |-> "LOBBY",
     currentRound |-> 0,
     totalRounds |-> 10,
     currentSong |-> NullSong,
     roundActive |-> FALSE,
     songsSet |-> FALSE,
     songs |-> << >>]

\* the create_room call suspended at await createGameRoom(...)
SaveCall(roomId, room) ==
    [call |-> 0, roomId |-> roomId, room |-> room, requestedRounds |-> 0,
     stage |-> "save", cands |-> 0, safeCount |-> 0]

\* the room is stored first; a request with a userId then awaits the sink
\* before room_created is sent
create_room(s, roomId) ==
    /\ ~crashed
    /\ Serve("create_room", s)
    /\ Requests < limit.requests
    /\ heap' = Append(heap, NewRoom(roomId, s))
    /\ hist' = Append(hist, NoHist)
    /\ rooms' = [rooms EXCEPT ![roomId] = Len(heap) + 1]
    /\ \E userId \in limit.userIds :
           IF userId
           THEN /\ loads' = loads \cup {SaveCall(roomId, Len(heap) + 1)}
                /\ emitted' = << >>
           ELSE /\ emitted' = << ToSocket(s, "room_created",
                                          [room |-> NewRoom(roomId, s)]) >>
                /\ UNCHANGED loads
    /\ UNCHANGED << timers, nStarts, crashed, limit >>

\* createGameRoom returns, with the stored row or with null after an error:
\* the handler goes on to socket.emit('room_created', rooms[roomId])
save_returns(l) ==
    /\ ~crashed
    /\ Serve("save_returns", "sink")
    /\ l \in loads /\ l.stage = "save"
    /\ loads' = loads \ {l}
    /\ emitted' = << ToSocket(heap[l.room].players[1].id, "room_created",
                              [room |-> heap[rooms[l.roomId]]]) >>
    /\ UNCHANGED << rooms, heap, timers, nStarts, crashed, hist, limit >>

\* the new player is put in front
AddPlayerFirst(players, s) == << [id |-> s, name |-> NameOf(s), score |-> 0] >> \o players

\* rooms[roomId].players.push({ id: socket.id, name: playerName, score: 0 })
AddPlayer(players, s) == Append(players, [id |-> s, name |-> NameOf(s), score |-> 0])

\* the phase is not looked at
JoinableAnyPhase(roomId) == rooms[roomId] # 0

\* rooms[roomId] && rooms[roomId].state === 'LOBBY'
Joinable(roomId) == rooms[roomId] # 0 /\ heap[rooms[roomId]].state = "LOBBY"

join_room(s, roomId) ==
    /\ ~crashed
    /\ Serve("join_room", s)
    /\ IF Joinable(roomId)
       THEN /\ Requests < limit.requests
            /\ heap' = [heap EXCEPT ![rooms[roomId]].players = AddPlayer(@, s)]
            /\ emitted' =
                   << ToRoom(roomId, "player_joined",
                             [players |-> heap'[rooms[roomId]].players]),
                      ToSocket(s, "room_joined", [room |-> heap'[rooms[roomId]]]) >>
       ELSE /\ emitted' = << ToSocket(s, "error",
                                      [code |-> "ROOM_NOT_FOUND_OR_STARTED"]) >>
            /\ UNCHANGED heap
    /\ UNCHANGED << rooms, timers, loads, nStarts, crashed, hist, limit >>

\* the delays handed to setTimeout, in milliseconds
AI_TIMEOUT == 20000

StartDelay == 1000

CountdownDelay == 3000

RoundTimeoutDelay == 30000

AfterWinDelay == 5000

AfterTimeoutDelay == 5000

\* parseInt(rounds, 10): NaN for a missing field
parseInt(rounds) ==
    IF rounds.t = "number" THEN [nan |-> FALSE, n |-> rounds.n]
    ELSE [nan |-> TRUE, n |-> 0]

\* let requestedRounds = parseInt(rounds, 10) || 10; capped at 50
requestedRoundsOf(rounds) ==
    LET p == parseInt(rounds)
        r == IF p.nan \/ p.n = 0 THEN 10 ELSE p.n
    IN IF r > 50 THEN 50 ELSE r

\* const safeCount = Math.ceil(count * 1.3): for the counts from -60 to 60
\* the double product rounds to a value with the ceiling of 13 * count / 10
safeCount(count) == -((-(13 * count)) \div 10)

\* if (!room || room.players.length === 0) return;
StartGuard(roomId) == rooms[roomId] # 0 /\ Len(heap[rooms[roomId]].players) # 0

\* the handler up to its first await: LOADING, game_loading, the provider is
\* called and the AI_TIMEOUT timer armed
start_game(s, roomId, rounds) ==
    /\ ~crashed
    /\ Serve("start_game", s)
    /\ IF StartGuard(roomId)
       THEN /\ Requests < limit.requests
            /\ nStarts < limit.starts
            /\ nStarts' = nStarts + 1
            /\ heap' = [heap EXCEPT ![rooms[roomId]].state = "LOADING"]
            /\ emitted' = << ToRoom(roomId, "game_loading", NoData) >>
            /\ loads' = loads \cup
                   { [call |-> nStarts + 1, roomId |-> roomId, room |-> rooms[roomId],
                      requestedRounds |-> requestedRoundsOf(rounds),
                      stage |-> "ai", cands |-> 0,
                      safeCount |-> safeCount(requestedRoundsOf(rounds))] }
            /\ timers' = Append(timers, Timer("aiTimeout", AI_TIMEOUT, roomId,
                                              0, NullSong, nStarts + 1))
       ELSE /\ emitted' = << >>
            /\ UNCHANGED << heap, loads, nStarts, timers >>
    /\ UNCHANGED << rooms, crashed, hist, limit >>

\* the catch block forgets to reset the phase
RollbackStaysLoading(l, code) ==
    /\ heap' = heap
    /\ emitted' = << ToRoom(l.roomId, "error", [code |-> code]) >>
    /\ loads' = loads \ {l}

\* the catch block: back to LOBBY, one error to the room
Rollback(l, code) ==
    /\ heap' = [heap EXCEPT ![l.room].state = "LOBBY"]
    /\ emitted' = << ToRoom(l.roomId, "error", [code |-> code]) >>
    /\ loads' = loads \ {l}

\* the race is settled: the AI_TIMEOUT callback still armed will reject a
\* settled promise, which does nothing, so the timer is dropped here; the
\* runs with limit.late keep it armed and let it fire
Settle(ts, call) ==
    IF limit.late
    THEN ts
    ELSE SelectSeq(ts, LAMBDA t : ~(t.kind = "aiTimeout" /\ t.call = call))

\* a late answer is taken like one in time
RaceNeverLost(l) == FALSE

\* the race has been settled by the timeout: Promise.race ignores what the
\* provider's promise does afterwards
RaceLost(l) == l.stage = "late"

\* getSongListFromAI resolves with n candidates ([] when the provider fails)
\* before the timeout has rejected the race
ai_returns(l, n) ==
    /\ ~crashed
    /\ Serve("ai_returns", "provider")
    /\ l \in loads /\ l.stage \in {"ai", "late"}
    /\ IF RaceLost(l)
       THEN /\ loads' = loads \ {l}
            /\ emitted' = << >>
            /\ UNCHANGED << heap, timers >>
       ELSE /\ IF n = 0
               THEN Rollback(l, "GENERATION_FAILED")
               ELSE /\ loads' = (loads \ {l}) \cup
                                 {[l EXCEPT !.stage = "search", !.cands = n]}
                    /\ emitted' = << >>
                    /\ UNCHANGED heap
            /\ timers' = Settle(timers, l.call)
    /\ UNCHANGED << rooms, nStarts, crashed, hist, limit >>

\* musicService.searchAndGetPreview: the song with its preview, or null
searchAndGetPreview(call, i, found) ==
    IF found
    THEN [id |-> << call, i >>,
          title |-> limit.catalog[i].title,
          artist |-> limit.catalog[i].artist,
          previewUrl |-> "https://preview.m4a"]
    ELSE NullSong

NotNull(song) == song # NullSong

\* validSongs.sort(() => Math.random() - 0.5): any order
Orders(n) ==
    {p \in [1..n -> 1..n] : \A i, j \in 1..n : p[i] = p[j] => i = j}

\* Array.prototype.slice(0, end)
slice(seq, end) ==
    SubSeq(seq, 1, IF end < 0 THEN Max2(Len(seq) + end, 0) ELSE Min2(end, Len(seq)))

\* totalRounds keeps the value create_room gave it
FinalizeKeepsTotal(room, finalPlaylist) ==
    [room EXCEPT !.songs = finalPlaylist,
                 !.songsSet = TRUE,
                 !.currentRound = 0,
                 !.state = "PLAYING"]

\* step 6 of start_game: the playlist and the round counters, then PLAYING
Finalize(room, finalPlaylist) ==
    [room EXCEPT !.songs = finalPlaylist,
                 !.songsSet = TRUE,
                 !.totalRounds = Len(finalPlaylist),
                 !.currentRound = 0,
                 !.state = "PLAYING"]

\* Promise.all(searchPromises) resolves: filter, shuffle, slice, start or fail
search_returns(l) ==
    /\ ~crashed
    /\ Serve("search_returns", "provider")
    /\ l \in loads /\ l.stage = "search"
    /\ \E found \in [1..l.cands -> BOOLEAN] :
       LET results == [i \in 1..l.cands |-> searchAndGetPreview(l.call, i, found[i])]
           validSongs == SelectSeq(results, NotNull)
       IN \E p \in Orders(Len(validSongs)) :
             LET shuffledSongs == [i \in 1..Len(validSongs) |-> validSongs[p[i]]]
                 finalPlaylist == slice(shuffledSongs, l.requestedRounds)
             IN IF Len(finalPlaylist) = 0
                THEN /\ Rollback(l, "GENERATION_FAILED")
                     /\ UNCHANGED timers
                ELSE /\ heap' = [heap EXCEPT ![l.room] = Finalize(@, finalPlaylist)]
                     /\ loads' = loads \ {l}
                     /\ emitted' = << ToRoom(l.roomId, "game_started",
                                             [totalRounds |-> Len(finalPlaylist)]) >>
                     /\ timers' = Append(timers, Timer("startRound", StartDelay,
                                                       l.roomId, 0, NullSong, 0))
    /\ UNCHANGED << rooms, nStarts, crashed, hist, limit >>

\* checkAnswer on the guesses and titles of this model, computed once
Titles == {Catalog3[i].title : i \in 1..Len(Catalog3)}

Accepts == [g \in Guesses |-> [t \in Titles |-> checkAnswer(g, t)]]

\* the guard does not look at roundActive
GuessOpenWhilePlaying(roomId) ==
    /\ rooms[roomId] # 0
    /\ heap[rooms[roomId]].state = "PLAYING"

\* the guard reads roundActive the wrong way round
GuessOpenInverted(roomId) ==
    /\ rooms[roomId] # 0
    /\ ~heap[rooms[roomId]].roundActive
    /\ heap[rooms[roomId]].state = "PLAYING"

\* if (!room || !room.roundActive || room.state !== 'PLAYING') return;
GuessOpen(roomId) ==
    /\ rooms[roomId] # 0
    /\ heap[rooms[roomId]].roundActive
    /\ heap[rooms[roomId]].state = "PLAYING"

\* room.players.find(p => p.id === socket.id): its index, 0 when not found
FindPlayer(room, s) ==
    IF \E k \in 1..Len(room.players) : room.players[k].id = s
    THEN CHOOSE k \in 1..Len(room.players) :
             /\ room.players[k].id = s
             /\ \A j \in 1..(k - 1) : room.players[j].id # s
    ELSE 0

\* the round is left open after an accepted guess
CloseRoundLeftOpen(room) == room

\* room.roundActive = false, before the player is looked up
CloseRound(room) == [room EXCEPT !.roundActive = FALSE]

\* a win counts double
AwardTwoPoints(room, k) == [room EXCEPT !.players[k].score = @ + 2]

\* the point goes to the first entry of players, whoever guessed
AwardPointToFirst(room, k) == [room EXCEPT !.players[1].score = @ + 1]

\* player.score += 1
AwardPoint(room, k) == [room EXCEPT !.players[k].score = @ + 1]

submit_guess(s, roomId, guess) ==
    /\ ~crashed
    /\ Serve("submit_guess", s)
    /\ IF ~GuessOpen(roomId)
       THEN /\ emitted' = << >>
            /\ UNCHANGED << heap, timers, crashed, hist >>
       ELSE LET o == rooms[roomId]
                room == heap[o]
                k == FindPlayer(room, s)
            IN IF ~IsSongObject(room.currentSong)
               THEN \* room.currentSong.title of null or undefined: TypeError
                    /\ crashed' = TRUE
                    /\ emitted' = << >>
                    /\ UNCHANGED << heap, timers, hist >>
               ELSE IF Accepts[guess][room.currentSong.title]
               THEN IF k # 0
                    THEN /\ heap' = [heap EXCEPT ![o] = AwardPoint(CloseRound(room), k)]
                         /\ emitted' =
                                << ToRoom(roomId, "update_scores",
                                          [players |-> heap'[o].players]),
                                   ToRoom(roomId, "round_winner",
                                          [player |-> room.players[k].name,
                                           song |-> room.currentSong]) >>
                         /\ timers' = Append(timers, Timer("afterWin", AfterWinDelay,
                                                           roomId, o, NullSong, 0))
                         /\ hist' = [hist EXCEPT ![o].won = @ + 1]
                         /\ UNCHANGED crashed
                    ELSE /\ heap' = [heap EXCEPT ![o] = CloseRound(room)]
                         /\ emitted' = << >>
                         /\ UNCHANGED << timers, crashed, hist >>
               ELSE /\ emitted' = << ToSocket(s, "wrong_guess", NoData) >>
                    /\ UNCHANGED << heap, timers, crashed, hist >>
    /\ UNCHANGED << rooms, loads, nStarts, limit >>

\* the disconnect handler only logs: the connection stays in players
disconnect(s) ==
    /\ ~crashed
    /\ Serve("disconnect", s)
    /\ emitted' = << >>
    /\ UNCHANGED << rooms, heap, timers, loads, nStarts, crashed, hist, limit >>

\* Node runs timers in the order of their expiry: a timer armed earlier with
\* a delay no longer than another's runs before it
CanFire(i) == \A j \in 1..(i - 1) : timers[j].delay > timers[i].delay

Armed(i, kind) ==
    /\ ~crashed
    /\ i \in 1..Len(timers)
    /\ timers[i].kind = kind
    /\ CanFire(i)

\* what a callback leaves: the heap, the timers and the events
Effect(h, ts, ev) == [heap |-> h, timers |-> ts, emitted |-> ev]

Apply(e) ==
    /\ heap' = e.heap
    /\ timers' = e.timers
    /\ emitted' = e.emitted

endGameInternal(roomId, ts) ==
    IF rooms[roomId] # 0
    THEN Effect([heap EXCEPT ![rooms[roomId]].state = "ENDED"], ts,
                << ToRoom(roomId, "game_over",
                          [players |-> heap[rooms[roomId]].players]) >>)
    ELSE Effect(heap, ts, << >>)

startRound(roomId, ts) ==
    IF heap[rooms[roomId]].currentRound >= heap[rooms[roomId]].totalRounds
    THEN endGameInternal(roomId, ts)
    ELSE Effect(heap,
                Append(ts, Timer("countdown", CountdownDelay, roomId,
                                 rooms[roomId], NullSong, 0)),
                << ToRoom(roomId, "start_countdown", [duration |-> 3]) >>)

\* the catch block after the AI_TIMEOUT rejection, in the runs that follow
\* the provider's call further: it stays in flight, its race lost
TimedOut(l) ==
    /\ heap' = [heap EXCEPT ![l.room].state = "LOBBY"]
    /\ emitted' = << ToRoom(l.roomId, "error", [code |-> "AI_TIMEOUT"]) >>
    /\ loads' = (loads \ {l}) \cup {[l EXCEPT !.stage = "late"]}

\* the race of a start_game call is still open
RacePending(call) == \E l \in loads : l.call = call /\ l.stage = "ai"

\* the AI_TIMEOUT callback: rejects the race unless the provider has answered
fire_aiTimeout(i) ==
    /\ Armed(i, "aiTimeout")
    /\ Serve("aiTimeout", "timer")
    /\ timers' = RemoveAt(timers, i)
    /\ IF RacePending(timers[i].call)
       THEN LET l == CHOOSE l \in loads : l.call = timers[i].call /\ l.stage = "ai"
            IN IF limit.late
               THEN TimedOut(l)
               ELSE Rollback(l, "AI_TIMEOUT")
       ELSE \* reject() of a promise whose race is settled
            /\ emitted' = << >>
            /\ UNCHANGED << heap, loads >>
    /\ UNCHANGED << rooms, nStarts, crashed, hist, limit >>

\* setTimeout(() => startRound(roomId), 1000)
fire_startRound(i) ==
    /\ Armed(i, "startRound")
    /\ Serve("startRound", "timer")
    /\ Apply(startRound(timers[i].roomId, RemoveAt(timers, i)))
    /\ UNCHANGED << rooms, loads, nStarts, crashed, hist, limit >>

\* the callback armed by a winning guess
fire_afterWin(i) ==
    /\ Armed(i, "afterWin")
    /\ Serve("afterWin", "timer")
    /\ LET room == heap[timers[i].room]
           e == IF room.currentRound < room.totalRounds
                THEN startRound(timers[i].roomId, RemoveAt(timers, i))
                ELSE endGameInternal(timers[i].roomId, RemoveAt(timers, i))
       IN Apply(e)
    /\ UNCHANGED << rooms, loads, nStarts, crashed, hist, limit >>

\* the callback armed by a round's timeout
fire_afterTimeout(i) ==
    /\ Armed(i, "afterTimeout")
    /\ Serve("afterTimeout", "timer")
    /\ Apply(startRound(timers[i].roomId, RemoveAt(timers, i)))
    /\ UNCHANGED << rooms, loads, nStarts, crashed, hist, limit >>

\* const song = room.songs[room.currentRound]
SongAt(room) ==
    IF room.currentRound + 1 \in 1..Len(room.songs)
    THEN room.songs[room.currentRound + 1]
    ELSE UndefinedSong

\* room.currentSong = song; room.roundActive = true; room.currentRound++
Activate(room) ==
    [room EXCEPT !.currentSong = SongAt(room),
                 !.roundActive = TRUE,
                 !.currentRound = @ + 1]

\* the countdown's callback: the round becomes active
fire_countdown(i) ==
    /\ Armed(i, "countdown")
    /\ Serve("countdown", "timer")
    /\ LET o == timers[i].room
           room == heap[o]
           song == SongAt(room)
       IN IF ~room.songsSet
          THEN \* room.songs[...] of undefined: TypeError
               /\ crashed' = TRUE
               /\ timers' = RemoveAt(timers, i)
               /\ emitted' = << >>
               /\ UNCHANGED << heap, hist >>
          ELSE IF ~IsSongObject(song)
          THEN \* song.previewUrl of undefined: TypeError, after the assignments
               /\ crashed' = TRUE
               /\ heap' = [heap EXCEPT ![o] = Activate(room)]
               /\ timers' = RemoveAt(timers, i)
               /\ emitted' = << >>
               /\ UNCHANGED hist
          ELSE /\ heap' = [heap EXCEPT ![o] = Activate(room)]
               /\ emitted' = << ToRoom(timers[i].roomId, "new_round",
                                       [roundNumber |-> room.currentRound + 1,
                                        previewUrl |-> song.previewUrl]) >>
               /\ timers' = Append(RemoveAt(timers, i),
                                   Timer("roundTimeout", RoundTimeoutDelay,
                                         timers[i].roomId, o, song, 0))
               /\ hist' = [hist EXCEPT ![o] = [@ EXCEPT !.begun = TRUE, !.won = 0,
                                                        !.timedOut = 0]]
               /\ UNCHANGED crashed
    /\ UNCHANGED << rooms, loads, nStarts, limit >>

\* the callback does not compare the song
TimeoutActsAnySong(room, song) == room.roundActive

\* if (room.roundActive && room.currentSong === song)
TimeoutActs(room, song) == room.roundActive /\ room.currentSong.id = song.id

\* the 30 s callback of a round
fire_roundTimeout(i) ==
    /\ Armed(i, "roundTimeout")
    /\ Serve("roundTimeout", "timer")
    /\ LET o == timers[i].room
       IN IF TimeoutActs(heap[o], timers[i].song)
          THEN /\ heap' = [heap EXCEPT ![o] = CloseRound(@)]
               /\ emitted' = << ToRoom(timers[i].roomId, "round_timeout",
                                       [song |-> timers[i].song]) >>
               /\ timers' = Append(RemoveAt(timers, i),
                                   Timer("afterTimeout", AfterTimeoutDelay,
                                         timers[i].roomId, 0, NullSong, 0))
               /\ hist' = [hist EXCEPT ![o].timedOut = @ + 1]
          ELSE /\ emitted' = << >>
               /\ timers' = RemoveAt(timers, i)
               /\ UNCHANGED << heap, hist >>
    /\ UNCHANGED << rooms, loads, nStarts, crashed, limit >>

Next ==
    \/ \E s \in Sockets, roomId \in limit.roomIds : create_room(s, roomId)
    \/ \E s \in Sockets, roomId \in RoomIds : join_room(s, roomId)
    \/ \E s \in Sockets, roomId \in RoomIds, rounds \in limit.rounds :
           start_game(s, roomId, rounds)
    \/ \E l \in loads, n \in 0..Len(limit.catalog) : ai_returns(l, n)
    \/ \E l \in loads : search_returns(l)
    \/ \E s \in Sockets, roomId \in RoomIds, guess \in Guesses :
           submit_guess(s, roomId, guess)
    \/ \E s \in Sockets : disconnect(s)
    \/ \E i \in 1..Len(timers) : fire_aiTimeout(i)
    \/ \E i \in 1..Len(timers) : fire_startRound(i)
    \/ \E i \in 1..Len(timers) : fire_countdown(i)
    \/ \E i \in 1..Len(timers) : fire_roundTimeout(i)
    \/ \E i \in 1..Len(timers) : fire_afterWin(i)
    \/ \E i \in 1..Len(timers) : fire_afterTimeout(i)

Spec == Init /\ [][Next]_vars

SpecRestart == InitRestart /\ [][Next]_vars

\* the runs whose provider knows three songs
InitThreeSongs ==
    Boot /\ limit = [requests |-> MaxRequests, starts |-> MaxStarts,
                     roomIds |-> {"R1"}, catalog |-> Catalog3,
                     userIds |-> {FALSE}, late |-> FALSE,
                     rounds |-> RoundsInputs]

SpecThreeSongs == InitThreeSongs /\ [][Next]_vars

\* the runs whose clients may be signed in: create_room awaits the sink,
\* which is free to answer or not; the server's own callbacks do run
InitPersist ==
    Boot /\ limit = [requests |-> MaxRequests, starts |-> MaxStarts,
                     roomIds |-> {"R1"}, catalog |-> Catalog1,
                     userIds |-> BOOLEAN, late |-> FALSE,
                     rounds |-> RoundsInputs]

NextPersist == Next \/ \E l \in loads : save_returns(l)

TimerSteps ==
    \E i \in 1..Len(timers) :
        \/ fire_aiTimeout(i) \/ fire_startRound(i) \/ fire_countdown(i)
        \/ fire_roundTimeout(i) \/ fire_afterWin(i) \/ fire_afterTimeout(i)

SpecPersist == InitPersist /\ [][NextPersist]_vars /\ WF_vars(TimerSteps)

\* requests served in the runs of one room with one player
MaxSoloRequests == 2

\* the runs of one room, created and started by its only player, with
\* guesses from either connection; the server's timer callbacks do run
InitSolo ==
    Boot /\ limit = [requests |-> MaxSoloRequests, starts |-> MaxStarts,
                     roomIds |-> {"R1"}, catalog |-> Catalog, userIds |-> {FALSE}, late |-> FALSE,
                     rounds |-> RoundsInputs]

SpecSolo == InitSolo /\ [][Next]_vars /\ WF_vars(TimerSteps)

\* the runs that follow both sides of Promise.race to their end: the
\* provider's answer after the timeout, the timeout after the answer
InitRace ==
    Boot /\ limit = [requests |-> MaxRequests, starts |-> MaxStarts,
                     roomIds |-> {"R1"}, catalog |-> Catalog1,
                     userIds |-> {FALSE}, late |-> TRUE,
                     rounds |-> RoundsInputs]

SpecRace == InitRace /\ [][Next]_vars

\* the rounds field as a client can send it: missing, not a number, zero,
\* negative, small, above the cap
AnyRounds ==
    { [t |-> "undefined", n |-> 0], [t |-> "string", n |-> 0],
      [t |-> "number", n |-> 0], [t |-> "number", n |-> -1],
      [t |-> "number", n |-> 1], [t |-> "number", n |-> 2],
      [t |-> "number", n |-> 51] }

\* the runs of one room started with any rounds field
InitRounds ==
    Boot /\ limit = [requests |-> MaxSoloRequests, starts |-> MaxStarts,
                     roomIds |-> {"R1"}, catalog |-> Catalog3,
                     userIds |-> {FALSE}, late |-> FALSE, rounds |-> AnyRounds]

SpecRounds == InitRounds /\ [][Next]_vars

\* the longest argument handed to checkAnswer by the calls below
MaxLen == 3

\* a letter, white space, punctuation and the two parentheses
MatchChars == {"a", " ", "!", "(", ")"}

RECURSIVE StringsOf(_)
StringsOf(n) ==
    IF n = 0 THEN {<< >>}
    ELSE StringsOf(n - 1) \cup
         {Append(str, c) : str \in {t \in StringsOf(n - 1) : Len(t) = n - 1},
                           c \in MatchChars}

\* titles with capitals, an accent, an annotation, a feat. clause
MatchTitles ==
    { Wonderwall, HeyJude,
      << "C", "a", "f", "e_acute" >>,
      << "T", "h", "e" >>,
      << "a", " ", "(", "L", "i", "v", "e", ")" >>,
      << "f", "e", "a", "t", ".", " ", "a" >> }

\* the arguments of the calls: every string up to MaxLen, the titles, null
\* and undefined
MatchInputs == StringsOf(MaxLen) \cup MatchTitles \cup {Null, Undefined}

\* checkAnswer called on its own with any two of them; the server is idle
InitMatch ==
    /\ Idle
    /\ limit = [requests |-> 0, starts |-> 0, roomIds |-> {},
                catalog |-> << >>, userIds |-> {}, late |-> FALSE,
                     rounds |-> RoundsInputs]
    /\ probe \in [guess : MatchInputs, actual : MatchInputs,
                   done : {FALSE}, threw : {FALSE}, result : {FALSE}]

\* the call returns a boolean, or throws
check_answer ==
    /\ ~probe.done
    /\ probe' =
           IF checkAnswerThrows(probe.guess, probe.actual)
           THEN [probe EXCEPT !.done = TRUE, !.threw = TRUE]
           ELSE [probe EXCEPT !.done = TRUE,
                              !.result = checkAnswer(probe.guess, probe.actual)]
    /\ UNCHANGED << rooms, heap, timers, loads, nStarts, emitted, crashed, hist,
                    limit, served >>

NextMatch == check_answer

SpecMatch == InitMatch /\ [][NextMatch]_vars

\* the guesses and titles of the unit tests of checkAnswer, and others like
\* them
TheBeatles == << "T", "h", "e", " ", "B", "e", "a", "t", "l", "e", "s" >>

Beatles == << "B", "e", "a", "t", "l", "e", "s" >>

BeatlesYeahYeah ==
    << "B", "e", "a", "t", "l", "e", "s", " ", "y", "e", "a", "h", " ", "y",
       "e", "a", "h" >>

TheRollingStones ==
    << "T", "h", "e", " ", "R", "o", "l", "l", "i", "n", "g", " ", "S", "t",
       "o", "n", "e", "s" >>

Stones == << "S", "t", "o", "n", "e", "s" >>

TeenSpirit == << "T", "e", "e", "n", " ", "S", "p", "i", "r", "i", "t" >>

SmellsLikeTeenSpirit ==
    << "S", "m", "e", "l", "l", "s", " ", "L", "i", "k", "e", " ", "T", "e",
       "e", "n", " ", "S", "p", "i", "r", "i", "t" >>

Beautiful == << "B", "e", "a", "u", "t", "i", "f", "u", "l" >>

BeautifulSong ==
    << "B", "e", "a", "u", "t", "i", "f", "u", "l", " ", "S", "o", "n", "g" >>

Rhapsody == << "R", "h", "a", "p", "s", "o", "d", "y" >>

BohemianRhapsody ==
    << "B", "o", "h", "e", "m", "i", "a", "n", " ", "R", "h", "a", "p", "s",
       "o", "d", "y" >>

Wonder == << "W", "o", "n", "d", "e", "r" >>

Wonderwal == << "W", "o", "n", "d", "e", "r", "w", "a", "l" >>

Sonf == << "S", "o", "n", "f" >>

Song == << "S", "o", "n", "g" >>

Snog == << "S", "n", "o", "g" >>

Apple == << "A", "p", "p", "l", "e" >>

Orange == << "O", "r", "a", "n", "g", "e" >>

LetterA == << "a" >>

LetterE == << "e" >>

FiveWords == << "b", " ", "c", " ", "d", " ", "e", " ", "f" >>

FourOfFive == << "b", " ", "c", " ", "d", " ", "e" >>

ThreeOfFive == << "b", " ", "c", " ", "d" >>

SongFeatArtist ==
    << "S", "o", "n", "g", " ", "f", "e", "a", "t", ".", " ", "A", "r", "t",
       "i", "s", "t" >>

SongFtArtist ==
    << "S", "o", "n", "g", " ", "f", "t", ".", " ", "A", "r", "t", "i", "s",
       "t" >>

Cafe == << "c", "a", "f", "e" >>

CafeAccent == << "c", "a", "f", "e_acute" >>

HeyJudePunct == << "H", "e", "y", ",", " ", "J", "u", "d", "e", "!" >>

SongRemix == << "S", "o", "n", "g", " ", "(", "R", "e", "m", "i", "x", ")" >>

Im == << "I", "m" >>

ImApostrophe == << "I", "'", "m" >>

TestPhrases ==
    { TheBeatles, Beatles, BeatlesYeahYeah, TheRollingStones, Stones,
      TeenSpirit, SmellsLikeTeenSpirit, Beautiful, BeautifulSong,
      Rhapsody, BohemianRhapsody, Wonder, Wonderwal, Sonf, Song, Snog,
      Apple, Orange, LetterA, LetterE, FiveWords, FourOfFive,
      ThreeOfFive, SongFeatArtist, SongFtArtist, Cafe, CafeAccent,
      HeyJudePunct, SongRemix, Im, ImApostrophe, Wonderwall, HeyJude }

\* the words phrases are made of: a stop word, a letter, a short word
Words == << << "T", "h", "e" >>, << "x" >>, << "S", "o" >> >>

\* the longest phrase, in words
MaxWords == 3

\* the phrases of exactly n words, one space between two words
RECURSIVE PhrasesOf(_)
PhrasesOf(n) ==
    IF n = 1 THEN {Words[k] : k \in 1..Len(Words)}
    ELSE {ph \o << " " >> \o Words[k] : ph \in PhrasesOf(n - 1), k \in 1..Len(Words)}

\* the arguments of these calls
PhraseInputs ==
    TestPhrases \cup UNION {PhrasesOf(n) : n \in 1..MaxWords}
        \cup {Null, Undefined, Zero, Five, True, False, EmptyObject, EmptyArray}

InitTitles ==
    /\ Idle
    /\ limit = [requests |-> 0, starts |-> 0, roomIds |-> {},
                catalog |-> << >>, userIds |-> {}, late |-> FALSE,
                     rounds |-> RoundsInputs]
    /\ probe \in [guess : PhraseInputs, actual : PhraseInputs,
                   done : {FALSE}, threw : {FALSE}, result : {FALSE}]

SpecTitles == InitTitles /\ [][NextMatch]_vars

\* the same calls served by the copy under app/server
check_answer_app ==
    /\ ~probe.done
    /\ probe' =
           IF checkAnswerThrows(probe.guess, probe.actual)
           THEN [probe EXCEPT !.done = TRUE, !.threw = TRUE]
           ELSE [probe EXCEPT !.done = TRUE,
                              !.result = checkAnswerApp(probe.guess, probe.actual)]
    /\ UNCHANGED << rooms, heap, timers, loads, nStarts, emitted, crashed, hist,
                    limit, served >>

NextApp == check_answer_app

SpecAppTitles == InitTitles /\ [][NextApp]_vars

\* the runs with two room ids, one more request and a game started again
InitTwoRooms ==
    Boot /\ limit = [requests |-> MaxRequests + 1, starts |-> MaxRestarts,
                     roomIds |-> RoomIds, catalog |-> Catalog1,
                     userIds |-> {FALSE}, late |-> FALSE,
                     rounds |-> RoundsInputs]

SpecTwoRooms == InitTwoRooms /\ [][Next]_vars

(***************************************************************************)
(* Part 3.  The properties checked                                         *)
(***************************************************************************)

Objects == 1..Len(heap)

\* the positions of the events named ev in a list of emitted events
Events(out, ev) == {k \in 1..Len(out) : out[k].ev = ev}

\* the room object o is the one its id leads to
Current(o) == rooms[heap[o].id] = o

TimerOps == {"startRound", "afterWin", "afterTimeout"}

\* the step activates a round of o: new_round is emitted
RoundBegins(o) ==
    /\ served'.op = "countdown"
    /\ heap'[o].currentRound = heap[o].currentRound + 1
    /\ Events(emitted', "new_round") # {}

\* the step ends the game of o: game_over is emitted
GameEnds(o) ==
    /\ served'.op \in TimerOps
    /\ heap'[o].state = "ENDED"
    /\ Events(emitted', "game_over") # {}
    /\ emitted'[1].to = heap[o].id
    /\ Current(o)

\* C1: no double scoring.  Between two activations of a room's round at
\* most one round_winner is emitted for it and at most one score rises, by
\* exactly 1, in the step that closes the round; every round_winner is
\* counted, and a guess served after the first accepted one scores nothing.
C1_NoDoubleScoring ==
    [][/\ Cardinality(Events(emitted', "round_winner")) <= 1
       /\ Events(emitted', "round_winner") # {} =>
              \E o \in Objects : hist'[o].won = hist[o].won + 1
       /\ \A o \in Objects :
              /\ hist'[o].won <= 1
              /\ \A k \in 1..Len(heap[o].players) :
                     LET d == heap'[o].players[k].score - heap[o].players[k].score
                     IN /\ d \in {0, 1}
                        /\ d = 1 =>
                              /\ hist[o].won = 0 /\ hist'[o].won = 1
                              /\ heap[o].roundActive /\ ~heap'[o].roundActive
                              /\ \A j \in 1..Len(heap[o].players) :
                                     j # k => heap'[o].players[j].score =
                                                  heap[o].players[j].score
      ]_vars

\* a round of a two-player room has been won, and a guess served afterwards
\* found the round closed
C1_SecondGuessAfterWin ==
    \E o \in Objects :
        /\ Current(o)
        /\ Len(heap[o].players) = 2
        /\ hist[o].won = 1
        /\ heap[o].players[1].score + heap[o].players[2].score = 1
        /\ heap[o].state = "PLAYING" /\ ~heap[o].roundActive
        /\ served.op = "submit_guess"
        /\ emitted = << >>

\* C2: every round that began is resolved exactly once, by round_winner or
\* by round_timeout, before the room's next new_round or its game_over.
C2_ExactlyOneResolution ==
    [][\A o \in Objects :
          (hist[o].begun /\ (RoundBegins(o) \/ GameEnds(o))) =>
              hist[o].won + hist[o].timedOut = 1
      ]_vars

\* C3: currentRound never exceeds totalRounds and never decreases.
C3_RoundCounter ==
    [][\A o \in Objects :
          /\ heap'[o].currentRound <= heap'[o].totalRounds
          /\ heap'[o].currentRound >= heap[o].currentRound
      ]_vars

\* the room the request names exists and is in the phase given
InPhase(roomId, phase) == rooms[roomId] # 0 /\ heap[rooms[roomId]].state = phase

\* the step sent exactly one event, named ev, to the connection s alone
OnlyTo(s, ev) ==
    /\ Len(emitted') = 1
    /\ emitted'[1].ev = ev /\ emitted'[1].scope = "socket" /\ emitted'[1].to = s

\* C4: join_room adds the caller to the room named when that room exists
\* and is in LOBBY, and touches no other room; otherwise the caller alone
\* gets an error and no room, timer or call in flight changes.
C4_JoinOnlyInLobby ==
    [][\A s \in Sockets, roomId \in RoomIds :
          (served'.op = "join_room" /\ join_room(s, roomId)) =>
              /\ UNCHANGED << rooms, timers, loads >>
              /\ Len(heap') = Len(heap)
              /\ IF InPhase(roomId, "LOBBY")
                 THEN \A o \in Objects :
                         IF o = rooms[roomId]
                         THEN /\ Len(heap'[o].players) = Len(heap[o].players) + 1
                              /\ heap'[o].players[Len(heap'[o].players)].id = s
                              /\ [heap'[o] EXCEPT !.players = heap[o].players] = heap[o]
                         ELSE heap'[o] = heap[o]
                 ELSE /\ OnlyTo(s, "error")
                      /\ heap' = heap
      ]_vars

\* a join_room was refused on a room whose game is running
C4_JoinRefusedWhilePlaying ==
    /\ served.op = "join_room"
    /\ Len(emitted) = 1 /\ emitted[1].ev = "error" /\ emitted[1].to = served.by
    /\ \E o \in Objects :
           Current(o) /\ heap[o].state = "PLAYING" /\ Len(heap[o].players) = 1

\* C5: a start_game for an unknown room or a room that is not in LOBBY
\* changes no room, timer or call in flight, broadcasts nothing and sends
\* the caller an error.
C5_StartRejectedOutsideLobby ==
    [][\A s \in Sockets, roomId \in RoomIds, rounds \in RoundsInputs :
          (/\ served'.op = "start_game"
           /\ ~InPhase(roomId, "LOBBY")
           /\ start_game(s, roomId, rounds)) =>
              /\ UNCHANGED << rooms, heap, timers, loads >>
              /\ OnlyTo(s, "error")
      ]_vars

\* C6: a room leaves LOBBY for LOADING only on a start_game of its owner,
\* the connection in players[0].
C6_OnlyOwnerStarts ==
    [][\A o \in Objects :
          (heap[o].state = "LOBBY" /\ heap'[o].state = "LOADING") =>
              served'.op = "start_game" /\ served'.by = heap[o].players[1].id
      ]_vars

\* the call l is over after the step
Gone(l) == \A m \in loads' : m.call # l.call

RoundTimers == {"startRound", "countdown", "roundTimeout", "afterWin", "afterTimeout"}

\* C7: a start_game on a LOBBY room puts the room in LOADING; a call that
\* ends without game_started (no candidates, the AI timeout, no preview
\* found) puts the room back in LOBBY, broadcasts exactly one error to the
\* room and arms no timer; zero candidates and the AI timeout end the call
\* that way.
C7_FailedStartRollsBack ==
    [][/\ \A s \in Sockets, roomId \in RoomIds, rounds \in RoundsInputs :
              (/\ served'.op = "start_game"
               /\ InPhase(roomId, "LOBBY")
               /\ start_game(s, roomId, rounds)) =>
                  /\ heap'[rooms[roomId]].state = "LOADING"
                  /\ \E l \in loads' \ loads : l.room = rooms[roomId]
       /\ \A l \in loads :
              /\ (served'.op = "ai_returns" /\ ai_returns(l, 0)) =>
                     Gone(l)
              /\ (served'.op \in {"ai_returns", "aiTimeout"} /\ Gone(l)) =>
                     Events(emitted', "game_started") = {}
              /\ (Gone(l) /\ Events(emitted', "game_started") = {}) =>
                     /\ heap'[l.room].state = "LOBBY"
                     /\ Len(emitted') = 1
                     /\ emitted'[1].ev = "error"
                     /\ emitted'[1].scope = "room" /\ emitted'[1].to = l.roomId
                     /\ Len(timers') <= Len(timers)
                     /\ \A k \in 1..Len(timers') :
                            timers'[k].kind \in RoundTimers =>
                                \E j \in 1..Len(timers) : timers[j] = timers'[k]
      ]_vars

\* the only start_game of the run found no preview: the room is back in
\* LOBBY with one error broadcast and no timer armed
C7_NoPreviewFound ==
    /\ served.op = "search_returns"
    /\ nStarts = 1 /\ loads = {} /\ timers = << >>
    /\ Len(emitted) = 1
    /\ emitted[1].ev = "error" /\ emitted[1].data.code = "GENERATION_FAILED"
    /\ \E o \in Objects : Current(o) /\ heap[o].state = "LOBBY"

\* the playlist of a room in PLAYING
Playable(room) ==
    /\ room.songsSet
    /\ Len(room.songs) > 0
    /\ room.totalRounds = Len(room.songs)
    /\ \A k \in 1..Len(room.songs) :
           IsSongObject(room.songs[k]) /\ room.songs[k].previewUrl # ""

\* C8: a room in PLAYING has a non-empty playlist of songs with a preview
\* and totalRounds = len(songs); the step that enters PLAYING leaves
\* currentRound = 0 and emits game_started, and game_started is emitted
\* only for such a room, with its totalRounds.
C8_NoPartialPlaying ==
    [][/\ \A o \in Objects :
              /\ heap'[o].state = "PLAYING" => Playable(heap'[o])
              /\ (heap[o].state # "PLAYING" /\ heap'[o].state = "PLAYING") =>
                     /\ heap'[o].currentRound = 0
                     /\ Events(emitted', "game_started") = {1}
       /\ Events(emitted', "game_started") # {} =>
              \E o \in Objects :
                  /\ heap'[o].id = emitted'[1].to
                  /\ heap'[o].state = "PLAYING" /\ Playable(heap'[o])
                  /\ heap'[o].currentRound = 0
                  /\ emitted'[1].data.totalRounds = Len(heap'[o].songs)
      ]_vars

\* a game has just started with a playlist of two songs
C8_StartedWithTwoSongs ==
    /\ served.op = "search_returns"
    /\ Events(emitted, "game_started") # {}
    /\ \E o \in Objects :
           Current(o) /\ heap[o].state = "PLAYING" /\ Len(heap[o].songs) = 2

C10_RejectedGuessFrame ==
    [][\A s \in Sockets, roomId \in RoomIds, guess \in Guesses :
          (/\ served'.op = "submit_guess" /\ served'.by = s
           /\ InPhase(roomId, "PLAYING")
           /\ heap[rooms[roomId]].roundActive
           /\ IsSongObject(heap[rooms[roomId]].currentSong)
           /\ ~Accepts[guess][heap[rooms[roomId]].currentSong.title]
           /\ submit_guess(s, roomId, guess)) =>
              /\ UNCHANGED << rooms, heap, timers, loads, crashed, hist >>
              /\ OnlyTo(s, "wrong_guess")
      ]_vars

\* a wrong guess was served in an active round whose timeout is still armed
C10_WrongGuessInActiveRound ==
    /\ served.op = "submit_guess"
    /\ Len(emitted) = 1 /\ emitted[1].ev = "wrong_guess" /\ emitted[1].to = served.by
    /\ \E o \in Objects :
           /\ Current(o)
           /\ heap[o].state = "PLAYING" /\ heap[o].roundActive
           /\ \E k \in 1..Len(timers) :
                  /\ timers[k].kind = "roundTimeout"
                  /\ timers[k].room = o
                  /\ timers[k].song.id = heap[o].currentSong.id

\* the scenario's room: the only room of the run, two players, and a playlist
\* of three songs installed by the only start_game
TwoPlayersThreeSongs(room) ==
    /\ Len(heap) = 1 /\ nStarts = 1
    /\ Len(room.players) = 2 /\ room.players[1].id # room.players[2].id
    /\ room.songsSet /\ Len(room.songs) = 3

\* the timers armed for a room id
PendingFor(ts, roomId) == {k \in 1..Len(ts) : ts[k].roomId = roomId}

\* C11: in a room with two players and a three-song playlist started once,
\* the winning guess of round 1 leaves currentRound = 1 and state PLAYING,
\* the room is ENDED only with currentRound = 3, and once it is ENDED no
\* timer of the room is pending.
C11_ThreeSongScenario ==
    [][\A o \in Objects :
          TwoPlayersThreeSongs(heap[o]) =>
              /\ (hist'[o].won = 1 /\ hist[o].won = 0 /\ heap[o].currentRound = 1) =>
                     heap'[o].currentRound = 1 /\ heap'[o].state = "PLAYING"
              /\ heap'[o].state = "ENDED" =>
                     /\ heap'[o].currentRound = 3
                     /\ PendingFor(timers', heap[o].id) = {}
      ]_vars

\* C12: the game ends only after its last round.  A room object becomes
\* ENDED only in a step before which its currentRound equals its totalRounds
\* and its roundActive is false.
C12_EndsAfterLastRound ==
    [][\A o \in Objects :
          (heap[o].state # "ENDED" /\ heap'[o].state = "ENDED") =>
              /\ heap[o].currentRound = heap[o].totalRounds
              /\ ~heap[o].roundActive
      ]_vars

\* the payload of the event holds the title and the artist of a song
HoldsSong(e) ==
    \/ e.ev \in {"round_winner", "round_timeout"}
    \/ /\ e.ev \in {"room_created", "room_joined"}
       /\ (IsSongObject(e.data.room.currentSong) \/ e.data.room.songs # << >>)

\* C13: the answer stays hidden.  A step that activates a round emits
\* exactly one new_round, whose payload has the fields roundNumber and
\* previewUrl and no other; an event whose payload holds a song's title is
\* the round_winner or the round_timeout of a round that was active, sent
\* to that round's room with that round's song.
C13_AnswerOnlyAtResolution ==
    [][/\ \A o \in Objects :
              (served'.op = "countdown" /\
               heap'[o].currentRound = heap[o].currentRound + 1) =>
                  Cardinality(Events(emitted', "new_round")) = 1
       /\ \A k \in Events(emitted', "new_round") :
              DOMAIN emitted'[k].data = {"roundNumber", "previewUrl"}
       /\ \A k \in 1..Len(emitted') :
              HoldsSong(emitted'[k]) =>
                  /\ emitted'[k].ev \in {"round_winner", "round_timeout"}
                  /\ \E o \in Objects :
                         /\ heap[o].roundActive /\ ~heap'[o].roundActive
                         /\ heap[o].id = emitted'[k].to
                         /\ heap[o].currentSong = emitted'[k].data.song
      ]_vars

\* C14: room ids are unique among live rooms.  create_room never assigns an
\* id that is already a key of the room table: the id it draws has no room
\* before the step, and no key of the table is led to another object.
C14_FreshRoomId ==
    [][/\ \A s \in Sockets, roomId \in RoomIds :
              (served'.op = "create_room" /\ create_room(s, roomId)) =>
                  rooms[roomId] = 0
       /\ \A roomId \in RoomIds :
              rooms[roomId] # 0 => rooms'[roomId] = rooms[roomId]
      ]_vars

\* the timers of the room id, in arming order
TimersOf(ts, roomId) == SelectSeq(ts, LAMBDA t : t.roomId = roomId)

\* the step is addressed to the room id A: a request naming it, an answer
\* of a provider to its start_game, or one of its timer callbacks
AddressedTo(A) ==
    \/ \E s \in Sockets : join_room(s, A)
    \/ \E s \in Sockets, rounds \in RoundsInputs : start_game(s, A, rounds)
    \/ \E s \in Sockets, guess \in Guesses : submit_guess(s, A, guess)
    \/ \E l \in loads :
           l.roomId = A /\ (search_returns(l) \/
                            \E n \in 0..Len(limit.catalog) : ai_returns(l, n))
    \/ \E i \in 1..Len(timers) :
           /\ timers[i].roomId = A
           /\ \/ fire_startRound(i) \/ fire_countdown(i) \/ fire_roundTimeout(i)
              \/ fire_afterWin(i) \/ fire_afterTimeout(i)

\* the step leaves the room under the id B as it was, and able to go on
Untouched(B) ==
    /\ rooms'[B] = rooms[B]
    /\ heap'[rooms[B]] = heap[rooms[B]]
    /\ TimersOf(timers', B) = TimersOf(timers, B)
    /\ \A k \in 1..Len(emitted') :
           ~(emitted'[k].scope = "room" /\ emitted'[k].to = B)
    /\ ~crashed'

\* C15: rooms are independent.  A step addressed to a room A (a join_room,
\* start_game or submit_guess naming it, a provider's answer to its
\* start_game, one of its timer callbacks, failing or not) leaves every
\* other room B's object, timers and events as they were, and leaves the
\* server running so that B's game can go on.
C15_RoomsIndependent ==
    [][\A A, B \in RoomIds :
          (A # B /\ rooms[B] # 0 /\ AddressedTo(A)) => Untouched(B)
      ]_vars

\* the entry is the same player: scores apart
SamePlayer(p, q) == p.id = q.id /\ p.name = q.name

\* C16: players is append-only and in join order.  A room object is created
\* with its creator as the only entry; afterwards every step keeps each
\* entry in its place (disconnect included), and the list grows only by one
\* entry put at the end, the caller of a join_room; so players[0] stays the
\* creator.
C16_PlayersAppendOnly ==
    [][/\ \A o \in Objects :
              /\ Len(heap'[o].players) >= Len(heap[o].players)
              /\ \A k \in 1..Len(heap[o].players) :
                     SamePlayer(heap'[o].players[k], heap[o].players[k])
              /\ Len(heap'[o].players) > Len(heap[o].players) =>
                     /\ Len(heap'[o].players) = Len(heap[o].players) + 1
                     /\ served'.op = "join_room"
                     /\ heap'[o].players[Len(heap'[o].players)].id = served'.by
       /\ \A o \in (1..Len(heap')) \ Objects :
              /\ served'.op = "create_room"
              /\ Len(heap'[o].players) = 1
              /\ heap'[o].players[1].id = served'.by
      ]_vars

\* the creator of a room with a second player has disconnected, and both
\* entries are where they were
C16_CreatorDisconnected ==
    /\ served.op = "disconnect"
    /\ \E o \in Objects :
           /\ Len(heap[o].players) = 2
           /\ heap[o].players[1].id = served.by
           /\ heap[o].players[2].id # served.by

\* C17: scores.  Every score is a natural number, 0 in a new room, and no
\* step lowers it; a step changes the score of a player only by +1, and
\* only when it serves a submit_guess of that player's connection, for a
\* PLAYING room whose round is active, with a guess checkAnswer accepts for
\* the current song.
C17_ScoreOnlyByOwnWin ==
    [][/\ \A o \in (1..Len(heap')) \ Objects :
              \A k \in 1..Len(heap'[o].players) : heap'[o].players[k].score = 0
       /\ \A o \in Objects :
              \A k \in 1..Len(heap[o].players) :
                  LET d == heap'[o].players[k].score - heap[o].players[k].score
                  IN /\ heap'[o].players[k].score \in Nat
                     /\ d \in {0, 1}
                     /\ d = 1 =>
                            /\ served'.op = "submit_guess"
                            /\ served'.by = heap[o].players[k].id
                            /\ heap[o].roundActive /\ heap[o].state = "PLAYING"
                            /\ Current(o)
                            /\ \E guess \in Guesses :
                                   /\ Accepts[guess][heap[o].currentSong.title]
                                   /\ submit_guess(served'.by, heap[o].id, guess)
      ]_vars

\* the player who joined second has won a round: the point is theirs, the
\* creator's score is still 0
C17_SecondPlayerScored ==
    /\ served.op = "submit_guess"
    /\ \E o \in Objects :
           /\ Len(heap[o].players) = 2
           /\ heap[o].players[2].id = served.by
           /\ heap[o].players[1].id # served.by
           /\ heap[o].players[2].score = 1
           /\ heap[o].players[1].score = 0
           /\ hist[o].won = 1

\* a create_room handler is waiting for createGameRoom to return
SavePending == \E l \in loads : l.stage = "save"

\* C18: persistence is best-effort.  Whatever the sink does (answer, fail,
\* hang), a create_room that called it is followed by a room_created: a
\* pending createGameRoom leads to a step that emits room_created.
C18_RoomCreatedWhateverTheSink ==
    SavePending ~> (Events(emitted, "room_created") # {})

\* the argument does not get past the guards: falsy, or nothing left of it
\* after clean
Empty(v) == Falsy(v) \/ clean(v) = << >>

\* C19: reflexivity.  checkAnswer(s, s) is true for every string s whose
\* clean(s) is not empty.
C19_Reflexive ==
    (probe.done /\ probe.guess = probe.actual /\ ~Empty(probe.guess)) =>
        probe.result

\* a title with an annotation, punctuation or spaces around it was matched
\* against itself
C19_AnnotatedTitleMatchesItself ==
    /\ probe.done /\ probe.result
    /\ probe.guess = probe.actual
    /\ clean(probe.guess) # probe.guess

Compared ==
    /\ probe.done /\ ~probe.threw
    /\ IsString(probe.guess) /\ IsString(probe.actual)
    /\ ~Empty(probe.guess) /\ ~Empty(probe.actual)

\* the call was checkAnswer(guess, actual)
Called(guess, actual) == probe.done /\ probe.guess = guess /\ probe.actual = actual

\* the words of the title that are not stop words, and those of them the
\* guess has among its words
Significant(actual) == getTokens(clean(actual))

Recalled(guess, actual) == Significant(actual) \cap rawTokens(clean(guess))

\* C21: asymmetric token overlap.  When the title has significant tokens
\* and at least 80% of them are among the words of the guess, checkAnswer
\* accepts, whatever else the guess contains; 'The Beatles' for 'Beatles'
\* and 'Beatles' for 'The Beatles' are accepted, 'Beatles' for 'The
\* Rolling Stones' is not.
C21_AsymmetricOverlap ==
    /\ (/\ Compared
        /\ Significant(probe.actual) # {}
        /\ 5 * Cardinality(Recalled(probe.guess, probe.actual))
              >= 4 * Cardinality(Significant(probe.actual))) => probe.result
    /\ Called(TheBeatles, Beatles) => probe.result
    /\ Called(Beatles, TheBeatles) => probe.result
    /\ Called(Beatles, TheRollingStones) => ~probe.result

\* a guess with two words more than the title's only significant token was
\* accepted
C21_ExtraWordsAccepted ==
    Called(BeatlesYeahYeah, TheBeatles) /\ probe.result

\* 1 - levenshtein / max >= 0.75 on the cleaned arguments
Similar(guess, actual) ==
    LET g == clean(guess)
        a == clean(actual)
        m == Max2(Len(g), Len(a))
    IN 4 * (m - levenshtein(g, a)) >= 3 * m

\* C22: partial titles are rejected.  A guess that differs from the title
\* after clean, has fewer than 80% of the title's significant tokens and is
\* not within similarity 0.75 of it is refused, being part of the title or
\* not: 'Teen Spirit' for 'Smells Like Teen Spirit', 'Beautiful' for
\* 'Beautiful Song', 'Rhapsody' for 'Bohemian Rhapsody' and 'Wonder' for
\* 'Wonderwall' are refused.
C22_PartialTitleRejected ==
    /\ (/\ Compared
        /\ clean(probe.guess) # clean(probe.actual)
        /\ Significant(probe.actual) # {}
        /\ 5 * Cardinality(Recalled(probe.guess, probe.actual))
              < 4 * Cardinality(Significant(probe.actual))
        /\ ~Similar(probe.guess, probe.actual)) => ~probe.result
    /\ Called(TeenSpirit, SmellsLikeTeenSpirit) => ~probe.result
    /\ Called(Beautiful, BeautifulSong) => ~probe.result
    /\ Called(Rhapsody, BohemianRhapsody) => ~probe.result
    /\ Called(Wonder, Wonderwall) => ~probe.result

SingleLetterGuess ==
    /\ Compared
    /\ Len(clean(probe.guess)) = 1
    /\ clean(probe.guess) # clean(probe.actual)

C25_NeverThrows ==
    (probe.done /\ IsString(probe.actual)) =>
        /\ ~probe.threw
        /\ ~IsString(probe.guess) => ~probe.result

\* C26: featured-artist markers are ignored on both sides.  With the title
\* 'Song' and the artist 'Artist': 'Song feat. Artist' and 'Song ft.
\* Artist' are accepted for 'Song', and 'Song' is accepted for 'Song feat.
\* Artist' and for 'Song ft. Artist'.
C26_FeaturedArtistIgnored ==
    /\ Called(SongFeatArtist, Song) => probe.result
    /\ Called(SongFtArtist, Song) => probe.result
    /\ Called(Song, SongFeatArtist) => probe.result
    /\ Called(Song, SongFtArtist) => probe.result

\* the string without case, accents and annotations, its punctuation left
\* out and its white space collapsed
IsPlainChar(c) == IsWordChar(c) \/ IsSpaceChar(c)

Plain(str) ==
    trim(collapseSpaces(SelectSeq(
        removeParens(removeAccents(normalizeNFD(toLowerCase(str)))), IsPlainChar)))

ClosedByGuess(o) ==
    /\ served'.op = "submit_guess"
    /\ heap[o].roundActive /\ ~heap'[o].roundActive

\* C28: a guess that closes a round does, in the same step, all of: one
\* score rises by one, update_scores and round_winner go to the room, and
\* the timer that continues the game is armed.  roundActive is never
\* cleared by a guess without the point, the round_winner and the
\* continuation.
C28_AcceptedGuessAtomic ==
    [][\A o \in Objects :
           ClosedByGuess(o) =>
               /\ \E k \in 1..Len(heap[o].players) :
                      /\ heap[o].players[k].id = served'.by
                      /\ heap'[o].players[k].score = heap[o].players[k].score + 1
               /\ Len(emitted') = 2
               /\ emitted'[1] = ToRoom(heap[o].id, "update_scores",
                                       [players |-> heap'[o].players])
               /\ emitted'[2].ev = "round_winner" /\ emitted'[2].to = heap[o].id
               /\ timers' = Append(timers, Timer("afterWin", AfterWinDelay,
                                                 heap[o].id, o, NullSong, 0))
      ]_vars

\* the armed timers of a room's game: the start delay, the countdown, the
\* round's timeout and the two pauses between rounds
LiveTimers(roomId) ==
    {k \in PendingFor(timers, roomId) : timers[k].kind \in RoundTimers}

\* C29: at every instant a room has at most one armed timer; a winning
\* guess leaves the round's timeout timer cancelled, and no timer is armed
\* while an earlier one of the room is still live.
C29_OneLiveTimerPerRoom ==
    \A roomId \in RoomIds : Cardinality(LiveTimers(roomId)) <= 1

\* the round a song was played in: its place in the playlist, 0 when the
\* playlist does not hold it
RoundOf(room, song) ==
    IF \E p \in 1..Len(room.songs) : room.songs[p].id = song.id
    THEN CHOOSE p \in 1..Len(room.songs) : room.songs[p].id = song.id
    ELSE 0

\* timer i is the timeout of a round that a guess has closed: the round is
\* over, or a later round has begun, and the timer is still armed
Stale(i) ==
    LET room == heap[timers[i].room]
        p == RoundOf(room, timers[i].song)
    IN /\ timers[i].kind = "roundTimeout"
       /\ room.songsSet /\ p >= 1
       /\ \/ room.currentRound > p
          \/ room.currentRound = p /\ ~room.roundActive

\* C30: the timeout callback of a round that a guess has already resolved
\* changes nothing, whether the room is in the pause, in a later round or
\* ended: roundActive stays, nothing is emitted, nothing is scheduled.
C30_StaleTimeoutIsNoOp ==
    [][\A i \in 1..Len(timers) :
           (served'.op = "roundTimeout" /\ Armed(i, "roundTimeout") /\ Stale(i)) =>
               /\ heap' = heap
               /\ emitted' = << >>
               /\ timers' = RemoveAt(timers, i)
               /\ hist' = hist
      ]_vars

\* the timeout of round 1, won by a guess, has fired while round 2 is
\* active: round 2 is still open and its own timeout is still armed
C30_StaleFiredInLaterRound ==
    \E o \in Objects :
        /\ served.op = "roundTimeout" /\ emitted = << >>
        /\ Current(o)
        /\ heap[o].state = "PLAYING" /\ heap[o].roundActive
        /\ heap[o].currentRound = 2
        /\ \E k \in 1..Len(heap[o].players) : heap[o].players[k].score = 1
        /\ \E k \in 1..Len(timers) :
               /\ timers[k].kind = "roundTimeout"
               /\ timers[k].song.id = heap[o].currentSong.id

\* C31: once a room is PLAYING, with its timers firing and whatever guesses
\* arrive from whatever connections, the room reaches ENDED.
C31_EveryGameEnds ==
    InPhase("R1", "PLAYING") ~> InPhase("R1", "ENDED")

\* C32: roundActive is true only while the room is PLAYING, and then
\* currentSong is songs[currentRound - 1], the song of the round begun last.
C32_ActiveOnlyWhilePlaying ==
    \A o \in Objects :
        heap[o].roundActive =>
            /\ heap[o].state = "PLAYING"
            /\ heap[o].songsSet
            /\ heap[o].currentRound \in 1..Len(heap[o].songs)
            /\ heap[o].currentSong = heap[o].songs[heap[o].currentRound]

RECURSIVE SumScores(_, _)
SumScores(players, k) ==
    IF k = 0 THEN 0 ELSE players[k].score + SumScores(players, k - 1)

\* the sum of the scores of a room's players
ScoreSum(room) == SumScores(room.players, Len(room.players))

\* the events named ev that a step sends to the room held by object o
SentTo(o, ev, out) ==
    {k \in Events(out, ev) : out[k].to = heap[o].id /\ rooms[heap[o].id] = o}

\* C33: score accounting, step by step.  A room starts with all scores 0;
\* in every step the sum of its scores grows by the number of round_winner
\* events sent to it in that step; a round_winner is sent only for a round
\* that began with a new_round and has no winner yet, and a round's winner
\* count is cleared only by the step that sends the next new_round.  So
\* the sum of the scores is the number of round_winner events and never
\* exceeds the number of new_round events.
C33_ScoreAccounting ==
    [][/\ \A o \in Objects :
              (heap'[o].players # heap[o].players \/ hist'[o] # hist[o]
                   \/ Events(emitted', "round_winner") # {}) =>
              /\ ScoreSum(heap'[o]) =
                     ScoreSum(heap[o]) + Cardinality(SentTo(o, "round_winner", emitted'))
              /\ SentTo(o, "round_winner", emitted') # {} =>
                     /\ hist[o].begun /\ hist[o].won = 0 /\ hist'[o].won = 1
              /\ (hist'[o].won < hist[o].won \/ hist'[o].begun # hist[o].begun) =>
                     \E k \in Events(emitted', "new_round") :
                         emitted'[k].to = heap[o].id
       /\ \A o \in 1..Len(heap') :
              o \notin Objects =>
                  /\ ScoreSum(heap'[o]) = 0
                  /\ ~hist'[o].begun /\ hist'[o].won = 0
       /\ \A k \in Events(emitted', "round_winner") :
              \E o \in Objects : k \in SentTo(o, "round_winner", emitted')
      ]_vars

\* the second of two rounds has just been won, the first was not: one
\* round_winner, two new_round, and the scores add up to 1
C33_SecondRoundWon ==
    \E o \in Objects :
        /\ Current(o)
        /\ served.op = "submit_guess"
        /\ Events(emitted, "round_winner") # {}
        /\ heap[o].currentRound = 2
        /\ hist[o].won = 1
        /\ ScoreSum(heap[o]) = 1

\* what a game sends to its room
GameEvents ==
    {"game_over", "start_countdown", "new_round", "round_winner",
     "round_timeout", "update_scores"}

\* C34: game_over is sent once; after it the room stays ENDED and receives
\* no second game_over and no start_countdown, new_round, round_winner,
\* round_timeout or update_scores.
C34_EndedIsFinal ==
    [][\A o \in Objects :
           (Current(o) /\ heap[o].state = "ENDED") =>
               /\ heap'[o].state = "ENDED"
               /\ \A ev \in GameEvents : SentTo(o, ev, emitted') = {}
      ]_vars

\* C35: the pause armed after a winning guess is strictly shorter than the
\* pause armed after a round's timeout.
C35_WinPauseShorter ==
    \A k \in 1..Len(timers) :
        /\ timers[k].kind = "afterWin" => timers[k].delay < AfterTimeoutDelay
        /\ timers[k].kind = "afterTimeout" => timers[k].delay > AfterWinDelay

\* C36: the provider's answer that comes after the AI timeout has rolled
\* the room back is discarded: the room, its songs and totalRounds, the
\* timers and the other calls stay as they are and nothing is emitted.  The
\* timeout that fires after the provider has answered changes nothing
\* either: no rollback, no error.
C36_RaceLoserIgnored ==
    [][/\ \A l \in loads :
              (served'.op = "ai_returns" /\ l.stage = "late" /\ l \notin loads') =>
                  /\ heap' = heap
                  /\ emitted' = << >>
                  /\ timers' = timers
                  /\ loads' = loads \ {l}
       /\ \A i \in 1..Len(timers) :
              (served'.op = "aiTimeout" /\ Armed(i, "aiTimeout")
                   /\ ~RacePending(timers[i].call)) =>
                  /\ heap' = heap
                  /\ emitted' = << >>
                  /\ loads' = loads
                  /\ timers' = RemoveAt(timers, i)
      ]_vars

\* the provider has answered a call whose room the timeout had rolled
\* back: the room is in LOBBY without songs, no call and no timer is left
C36_LateAnswerDropped ==
    \E o \in Objects :
        /\ served.op = "ai_returns" /\ emitted = << >>
        /\ nStarts = 1 /\ loads = {} /\ timers = << >>
        /\ Current(o)
        /\ heap[o].state = "LOBBY" /\ ~heap[o].songsSet

\* C37: within one room no two entries of players have the same connection
\* id, whatever create_room and join_room requests the connections send.
C37_OneEntryPerConnection ==
    \A o \in Objects :
        \A j, k \in 1..Len(heap[o].players) :
            j # k => heap[o].players[j].id # heap[o].players[k].id

\* C38: a start_game that succeeds leaves 1 <= totalRounds <= 50 and
\* totalRounds no greater than the number of rounds asked for, whatever the
\* rounds field was and however many songs were found.
C38_TotalRoundsWithinRequest ==
    [][\A l \in loads :
           (served'.op = "search_returns" /\ l.stage = "search" /\ l \notin loads'
                /\ heap'[l.room].state = "PLAYING") =>
               /\ heap'[l.room].totalRounds \in 1..50
               /\ heap'[l.room].totalRounds <= l.requestedRounds
      ]_vars

\* C39: the number of candidates getSongListFromAI asks the provider for is
\* strictly greater than the round count start_game passes to it.
C39_AsksMoreThanNeeded ==
    \A l \in loads :
        l.stage = "ai" => l.safeCount > l.requestedRounds

\* the lengths of the cleaned arguments differ by more than 0.3 of the
\* longer one: similarity returns 0 before any distance is computed
ShortCircuited(guess, actual) ==
    LET g == clean(guess)
        a == clean(actual)
    IN 10 * Abs(Len(g) - Len(a)) > 3 * Max2(Len(g), Len(a))

\* checkAnswer with the distance always computed and compared with 0.75
checkAnswerFull(guess, actual) ==
    IF Falsy(guess) \/ Falsy(actual) THEN FALSE
    ELSE LET g == clean(guess)
             a == clean(actual)
         IN IF Falsy(g) \/ Falsy(a) THEN FALSE
            ELSE IF g = a THEN TRUE
            ELSE IF overlapAccepts(g, a) THEN TRUE
            ELSE Similar(guess, actual)

\* C40: the test of the lengths never changes the verdict: checkAnswer
\* answers as the variant that always computes the distance, and the
\* similarity tier alone decides as the full similarity does.
C40_ShortCircuitIsSound ==
    Compared =>
        /\ probe.result = checkAnswerFull(probe.guess, probe.actual)
        /\ similarityAccepts(clean(probe.guess), clean(probe.actual))
               = Similar(probe.guess, probe.actual)

\* 'Wonder' for 'Wonderwall': the lengths 6 and 10 differ by 40%, the
\* distance is not computed and the guess is refused
C40_CutApplied ==
    /\ Called(Wonder, Wonderwall)
    /\ ShortCircuited(Wonder, Wonderwall)
    /\ ~probe.result

=============================================================================
